---- MODULE Spec2Model ----
(***************************************************************************)
(* WanderGenie itinerary backend (src/main.py): the prompt store, the      *)
(* template merge, the generate-itinerary handler and the text helpers it  *)
(* uses.  A Python str is a sequence of one-character strings; indices in  *)
(* the operators that model str.find and the bracket scan are Python's     *)
(* 0-based indices, -1 meaning "not found".                                *)
(***************************************************************************)
EXTENDS Integers, Sequences, FiniteSets, TLC

VARIABLES
    prompts_col,    \* the prompts collection: its documents in insertion order
    pc,             \* where the generate_itinerary handler stands
    payload,        \* the request it serves
    master_prompt,  \* the merged prompt
    raw,            \* the text the model answered
    json_text,      \* the located JSON text
    data,           \* the parsed value
    response,       \* what the handler answers
    log,            \* the stages the handler has run, in order
    gen_calls,      \* the calls to the model it has made
    arg,            \* the argument handed to a helper called on its own
    ret,            \* what the helper returned
    step            \* "ready" before that call, "done" after it

serverVars ==
    <<prompts_col, pc, payload, master_prompt, raw, json_text, data, response,
      log, gen_calls>>

helperVars == <<arg, ret, step>>

vars == <<serverVars, helperVars>>

----------------------------------------------------------------------------
(* Python str primitives *)

Max(a, b) == IF a >= b THEN a ELSE b

\* str.isspace for the characters of the model's alphabets
Whitespace == {" ", "\n"}

\* str.lstrip()
LStrip(s) ==
    IF \E i \in 1..Len(s) : s[i] \notin Whitespace
    THEN SubSeq(s, CHOOSE i \in 1..Len(s) :
                       s[i] \notin Whitespace
                       /\ \A j \in 1..(i - 1) : s[j] \in Whitespace, Len(s))
    ELSE <<>>

\* str.rstrip()
RStrip(s) ==
    IF \E i \in 1..Len(s) : s[i] \notin Whitespace
    THEN SubSeq(s, 1, CHOOSE i \in 1..Len(s) :
                          s[i] \notin Whitespace
                          /\ \A j \in (i + 1)..Len(s) : s[j] \in Whitespace)
    ELSE <<>>

\* str.strip()
Strip(s) == RStrip(LStrip(s))

\* str.startswith(p)
StartsWith(s, p) == Len(p) <= Len(s) /\ SubSeq(s, 1, Len(p)) = p

\* str.endswith(p)
EndsWith(s, p) ==
    Len(p) <= Len(s) /\ SubSeq(s, Len(s) - Len(p) + 1, Len(s)) = p

\* str.find(c) for a one-character c: 0-based index of the first c, or -1
Find(s, c) ==
    IF \E i \in 1..Len(s) : s[i] = c
    THEN (CHOOSE i \in 1..Len(s) :
              s[i] = c /\ \A j \in 1..(i - 1) : s[j] # c) - 1
    ELSE -1

\* s[a:] for a 0-based a
From(s, a) == SubSeq(s, a + 1, Len(s))

\* whether sub occurs in s at 0-based index i
OccursAt(s, sub, i) ==
    i + Len(sub) <= Len(s) /\ SubSeq(s, i + 1, i + Len(sub)) = sub

\* Python's "sub in s"
Contains(s, sub) == \E i \in 0..Len(s) : OccursAt(s, sub, i)

\* 0-based index of the first character at or after i that is in S, or
\* len(s)
SkipUntil(s, i, S) ==
    IF \E j \in i..(Len(s) - 1) : s[j + 1] \in S
    THEN CHOOSE j \in i..(Len(s) - 1) :
             s[j + 1] \in S /\ \A k \in i..(j - 1) : s[k + 1] \notin S
    ELSE Max(i, Len(s))

\* 0-based index of the first character at or after i that is not in S, or
\* len(s)
SkipRun(s, i, S) ==
    IF \E j \in i..(Len(s) - 1) : s[j + 1] \notin S
    THEN CHOOSE j \in i..(Len(s) - 1) :
             s[j + 1] \notin S /\ \A k \in i..(j - 1) : s[k + 1] \in S
    ELSE Max(i, Len(s))

\* a dict is the sequence of its [k, v] items in insertion order:
\* k in d, d[k] and d[k] = v
HasKey(m, k) == \E i \in 1..Len(m) : m[i].k = k

GetKey(m, k) == m[CHOOSE i \in 1..Len(m) : m[i].k = k].v

SetKey(m, k, v) ==
    IF HasKey(m, k)
    THEN [i \in 1..Len(m) |-> IF m[i].k = k THEN [k |-> k, v |-> v] ELSE m[i]]
    ELSE Append(m, [k |-> k, v |-> v])

\* the sequences over S of length at most n
SeqsUpTo(S, n) == UNION {[1..k -> S] : k \in 0..n}

----------------------------------------------------------------------------
(* build_master_prompt: the substitution set and the rendering of one      *)
(* fragment.  An Optional[str] field is <<>> for None and <<s>> for s.     *)

None == <<>>

Some(s) == <<s>>

\* x or ""
OrEmpty(x) == IF x = None THEN <<>> ELSE x[1]

\* str(x) of an Optional[str]
StrOpt(x) == IF x = None THEN <<"N","o","n","e">> ELSE x[1]

DigitChar(d) ==
    CASE d = 0 -> "0" [] d = 1 -> "1" [] d = 2 -> "2" [] d = 3 -> "3"
      [] d = 4 -> "4" [] d = 5 -> "5" [] d = 6 -> "6" [] d = 7 -> "7"
      [] d = 8 -> "8" [] d = 9 -> "9"

RECURSIVE NatToStr(_)
NatToStr(n) ==
    IF n < 10 THEN <<DigitChar(n)>>
    ELSE Append(NatToStr(n \div 10), DigitChar(n % 10))

\* str(n) of an int
IntToStr(n) == IF n < 0 THEN <<"-">> \o NatToStr(0 - n) ELSE NatToStr(n)

\* sep.join(parts), halving the list
RECURSIVE Join(_, _)
Join(parts, sep) ==
    IF parts = <<>> THEN <<>>
    ELSE IF Len(parts) = 1 THEN parts[1]
    ELSE LET h == Len(parts) \div 2 IN
         Join(SubSeq(parts, 1, h), sep) \o sep
             \o Join(SubSeq(parts, h + 1, Len(parts)), sep)

CommaSpace == <<",", " ">>

build_location_fallback(specific_places, categories) ==
    LET sp == Strip(OrEmpty(specific_places)) IN
    IF sp # <<>> THEN sp
    ELSE IF categories # <<>> THEN Join(categories, CommaSpace)
    ELSE <<>>

\* the replacements dict, in insertion order
Replacements(user) ==
    << [k |-> <<"f","r","o","m","_","l","o","c","a","t","i","o","n">>,
        v |-> user.from_location],
       [k |-> <<"s","p","e","c","i","f","i","c","_","l","o","c","a","t","i","o","n">>,
        v |-> build_location_fallback(user.specific_places, user.categories)],
       [k |-> <<"c","a","t","e","g","o","r","i","e","s">>,
        v |-> IF user.categories # <<>>
              THEN Join(user.categories, CommaSpace) ELSE <<>>],
       [k |-> <<"d","a","y","s">>, v |-> IntToStr(user.days)],
       [k |-> <<"c","u","r","r","e","n","c","y">>, v |-> user.currency],
       [k |-> <<"b","u","d","g","e","t">>, v |-> StrOpt(user.budget)],
       [k |-> <<"i","n","t","e","n","t">>,
        v |-> IF user.intent # <<>>
              THEN Join(user.intent, CommaSpace) ELSE <<>>],
       [k |-> <<"g","r","o","u","p">>, v |-> OrEmpty(user.group)],
       [k |-> <<"s","t","a","y">>, v |-> OrEmpty(user.stay)],
       [k |-> <<"n","o","t","e","s">>, v |-> OrEmpty(user.notes)],
       [k |-> <<"t","r","i","p","_","t","y","p","e">>,
        v |-> IF user.intent # <<>>
              THEN user.intent[1] ELSE <<"g","e","n","e","r","a","l">>] >>

\* the outcome of a call: the value, or raised
Returned(v) == [raised |-> FALSE, v |-> v]

Raised == [raised |-> TRUE, v |-> <<>>]

\* txt.format(**replacements) from 0-based index i on, for templates whose
\* field names hold no ".", "[", "!" or ":": the text up to the next brace
\* is literal, "{{" and "}}" are literal braces, "{name}" is the value of a
\* known name, and a lone "}", an unclosed field, an empty or an unknown
\* name raise
RECURSIVE FormatFrom(_, _, _)
FormatFrom(txt, i, replacements) ==
    LET b == SkipUntil(txt, i, {"{", "}"}) IN
    IF b >= Len(txt) THEN Returned(From(txt, i))
    ELSE LET c == txt[b + 1]
             doubled == b + 1 < Len(txt) /\ txt[b + 2] = c
             close == SkipUntil(txt, b + 1, {"{", "}"})
             name == SubSeq(txt, b + 2, close)
             piece ==
                 IF doubled THEN Returned(<<c>>)
                 ELSE IF c = "}" THEN Raised
                 ELSE IF close >= Len(txt) \/ txt[close + 1] = "{" THEN Raised
                 ELSE IF HasKey(replacements, name)
                 THEN Returned(GetKey(replacements, name))
                 ELSE Raised
             next == IF doubled THEN b + 2 ELSE close + 1
         IN  IF piece.raised THEN Raised
             ELSE LET rest == FormatFrom(txt, next, replacements) IN
                  IF rest.raised THEN Raised
                  ELSE Returned(SubSeq(txt, i + 1, b) \o piece.v \o rest.v)

Format(txt, replacements) == FormatFrom(txt, 0, replacements)

\* s.replace(old, new) from 0-based index i on, for a non-empty old: the
\* text up to the next occurrence of old is copied
RECURSIVE ReplaceFrom(_, _, _, _)
ReplaceFrom(s, i, old, new) ==
    IF \E j \in i..(Len(s) - 1) : OccursAt(s, old, j)
    THEN LET j == CHOOSE j \in i..(Len(s) - 1) :
                      OccursAt(s, old, j)
                      /\ \A k \in i..(j - 1) : ~OccursAt(s, old, k)
         IN  SubSeq(s, i + 1, j) \o new \o ReplaceFrom(s, j + Len(old), old, new)
    ELSE From(s, i)

Replace(s, old, new) == ReplaceFrom(s, 0, old, new)

\* the loop of the except branch, from the n-th replacement on
RECURSIVE ReplaceEach(_, _, _)
ReplaceEach(txt, replacements, n) ==
    IF n > Len(replacements) THEN txt
    ELSE ReplaceEach(
             Replace(txt, <<"{">> \o replacements[n].k \o <<"}">>,
                     replacements[n].v),
             replacements, n + 1)

\* a rendering without the except branch
RenderNoFallback(txt, replacements) == Format(txt, replacements)

\* the try/except of the loop body: the rendered text of one fragment
RenderPart(txt, replacements) ==
    LET formatted == Format(txt, replacements) IN
    IF ~formatted.raised THEN formatted
    ELSE Returned(ReplaceEach(txt, replacements, 1))

----------------------------------------------------------------------------
(* extract_json_from_model_output *)

\* the backquote character (U+0060), which a TLA+ string cannot hold
BQ == "backquote"

FenceJson == <<BQ, BQ, BQ, "j", "s", "o", "n">>

Fence == <<BQ, BQ, BQ>>

FenceMarkers == <<FenceJson, Fence>>

\* one pass of the loop body over the code-fence markers
StripMarker(cleaned, marker) ==
    LET a == IF StartsWith(cleaned, marker)
             THEN Strip(SubSeq(cleaned, Len(marker) + 1, Len(cleaned)))
             ELSE cleaned
    IN  IF EndsWith(a, marker)
        THEN Strip(SubSeq(a, 1, Len(a) - Len(marker)))
        ELSE a

\* raw.strip() followed by the loop over the two markers
CleanText(text) ==
    StripMarker(StripMarker(Strip(text), FenceMarkers[1]), FenceMarkers[2])

StartIndex(cleaned) == Max(Find(cleaned, "{"), Find(cleaned, "["))

\* the scan loop: i is the offset within cleaned[start_idx:], stack the list
\* of open delimiters; the value is end_idx, or -1 when the loop ends
\* without the stack emptying.  The characters that are no delimiters leave
\* the stack alone and are skipped in one step.
RECURSIVE ScanFrom(_, _, _, _)
ScanFrom(cleaned, start_idx, i, stack) ==
    LET d == SkipUntil(cleaned, start_idx + i, {"{", "[", "}", "]"}) IN
    IF d >= Len(cleaned) THEN -1
    ELSE LET c == cleaned[d + 1] IN
         IF c \in {"{", "["}
         THEN ScanFrom(cleaned, start_idx, d - start_idx + 1, Append(stack, c))
         ELSE IF stack # <<>>
         THEN LET popped == SubSeq(stack, 1, Len(stack) - 1) IN
              IF popped = <<>>
              THEN d
              ELSE ScanFrom(cleaned, start_idx, d - start_idx + 1, popped)
         ELSE ScanFrom(cleaned, start_idx, d - start_idx + 1, stack)

\* a scan that stops at the first closing delimiter
FirstCloserEnd(cleaned, start_idx) ==
    LET rest == From(cleaned, start_idx)
        hits == {Find(rest, "}"), Find(rest, "]")} \ {-1}
    IN  IF hits = {} THEN -1
        ELSE start_idx + (CHOOSE h \in hits : \A g \in hits : h <= g)

MatchEnd(cleaned, start_idx) == ScanFrom(cleaned, start_idx, 0, <<>>)

extract_json_from_model_output(text) ==
    IF text = <<>> THEN <<>>
    ELSE LET cleaned == CleanText(text)
             start_idx == StartIndex(cleaned)
         IN  IF start_idx = -1 THEN cleaned
             ELSE LET end_idx == MatchEnd(cleaned, start_idx) IN
                  IF end_idx # -1
                  THEN SubSeq(cleaned, start_idx + 1, end_idx + 1)
                  ELSE From(cleaned, start_idx)

----------------------------------------------------------------------------
(* fix_json: the two re.sub rewrites.  Both patterns are deterministic     *)
(* (greedy runs of whitespace and of identifier characters, each followed  *)
(* by a character outside the run), so a match at an index is unique and   *)
(* re.sub takes the leftmost matches left to right, without overlap.       *)

Letters ==
    {"a","b","c","d","e","f","g","h","i","j","k","l","m","n","o","p","q","r",
     "s","t","u","v","w","x","y","z",
     "A","B","C","D","E","F","G","H","I","J","K","L","M","N","O","P","Q","R",
     "S","T","U","V","W","X","Y","Z"}

Digits == {"0","1","2","3","4","5","6","7","8","9"}

\* [a-zA-Z_]
IdentStart == Letters \cup {"_"}

\* [a-zA-Z0-9_]
IdentChars == IdentStart \cup Digits

\* ([{,]\s*)([a-zA-Z_][a-zA-Z0-9_]*)(\s*:) matched at 0-based index i:
\* the ends of the three groups, or <<>> when there is no match at i
BareKeyMatch(s, i) ==
    IF i < Len(s) /\ s[i + 1] \in {"{", ","}
    THEN LET g1 == SkipRun(s, i + 1, Whitespace) IN
         IF g1 < Len(s) /\ s[g1 + 1] \in IdentStart
         THEN LET g2 == SkipRun(s, g1 + 1, IdentChars)
                  ws == SkipRun(s, g2, Whitespace)
              IN  IF ws < Len(s) /\ s[ws + 1] = ":"
                  THEN <<g1, g2, ws + 1>>
                  ELSE <<>>
         ELSE <<>>
    ELSE <<>>

\* the first re.sub, from 0-based index i on: the text up to the next "{"
\* or ",", where alone a match can start, is copied
RECURSIVE QuoteBareKeysFrom(_, _)
QuoteBareKeysFrom(s, i) ==
    LET j == SkipUntil(s, i, {"{", ","}) IN
    IF j >= Len(s) THEN From(s, i)
    ELSE LET m == BareKeyMatch(s, j) IN
         IF m # <<>>
         THEN SubSeq(s, i + 1, m[1]) \o <<"\"">> \o SubSeq(s, m[1] + 1, m[2])
                  \o <<"\"">> \o SubSeq(s, m[2] + 1, m[3])
                  \o QuoteBareKeysFrom(s, m[3])
         ELSE SubSeq(s, i + 1, j + 1) \o QuoteBareKeysFrom(s, j + 1)

QuoteBareKeys(s) == QuoteBareKeysFrom(s, 0)

\* ,\s*([}\]]) matched at 0-based index i: the index of the closing
\* delimiter, or -1
TrailingCommaMatch(s, i) ==
    IF i < Len(s) /\ s[i + 1] = ","
    THEN LET j == SkipRun(s, i + 1, Whitespace) IN
         IF j < Len(s) /\ s[j + 1] \in {"}", "]"} THEN j ELSE -1
    ELSE -1

\* the second re.sub, from 0-based index i on: the text up to the next
\* "," is copied
RECURSIVE DropTrailingCommasFrom(_, _)
DropTrailingCommasFrom(s, i) ==
    LET c == SkipUntil(s, i, {","}) IN
    IF c >= Len(s) THEN From(s, i)
    ELSE LET j == TrailingCommaMatch(s, c) IN
         IF j # -1
         THEN SubSeq(s, i + 1, c) \o <<s[j + 1]>> \o DropTrailingCommasFrom(s, j + 1)
         ELSE SubSeq(s, i + 1, c + 1) \o DropTrailingCommasFrom(s, c + 1)

DropTrailingCommas(s) == DropTrailingCommasFrom(s, 0)

fix_json(json_str) == DropTrailingCommas(QuoteBareKeys(json_str))

----------------------------------------------------------------------------
(* json.loads, for JSON without string escapes, fractions and exponents.   *)
(* A parsed value is a tagged record; an object keeps its members in       *)
(* insertion order, as a Python dict does.                                 *)

JNull == [t |-> "null"]

JBool(b) == [t |-> "bool", b |-> b]

JNum(n) == [t |-> "num", n |-> n]

JStr(s) == [t |-> "str", s |-> s]

JArr(e) == [t |-> "arr", e |-> e]

JObj(m) == [t |-> "obj", m |-> m]

\* the whitespace json accepts between tokens
JsonWs == {" ", "\n"}

\* a parse result: ok, the value and the 0-based index after it
Parsed(v, i) == [ok |-> TRUE, v |-> v, i |-> i]

NoParse == [ok |-> FALSE, v |-> JNull, i |-> 0]

DigitValue(c) ==
    CASE c = "0" -> 0 [] c = "1" -> 1 [] c = "2" -> 2 [] c = "3" -> 3
      [] c = "4" -> 4 [] c = "5" -> 5 [] c = "6" -> 6 [] c = "7" -> 7
      [] c = "8" -> 8 [] c = "9" -> 9

\* int() of a run of decimal digits
RECURSIVE DigitsValue(_)
DigitsValue(ds) ==
    IF ds = <<>> THEN 0
    ELSE 10 * DigitsValue(SubSeq(ds, 1, Len(ds) - 1)) + DigitValue(ds[Len(ds)])

\* -?(0|[1-9][0-9]*) at 0-based index i
ParseNumber(s, i) ==
    LET neg == s[i + 1] = "-"
        d == IF neg THEN i + 1 ELSE i
    IN  IF d >= Len(s) \/ s[d + 1] \notin Digits THEN NoParse
        ELSE LET e == IF s[d + 1] = "0" THEN d + 1 ELSE SkipRun(s, d, Digits)
                 n == DigitsValue(SubSeq(s, d + 1, e))
             IN  Parsed(JNum(IF neg THEN 0 - n ELSE n), e)

\* a string literal whose opening quote is at 0-based index i: it runs to
\* the next quote; a control character ends it in error, and so does a
\* backslash (escapes are outside the modelled subset)
ParseString(s, i) ==
    LET e == SkipUntil(s, i + 1, {"\"", "\\", "\n"}) IN
    IF e < Len(s) /\ s[e + 1] = "\""
    THEN Parsed(JStr(SubSeq(s, i + 2, e)), e + 1)
    ELSE NoParse

ParseLiteral(s, i, word, v) ==
    IF OccursAt(s, word, i) THEN Parsed(v, i + Len(word)) ELSE NoParse

RECURSIVE ParseValue(_, _)
RECURSIVE ParseMembers(_, _, _)
RECURSIVE ParseElements(_, _, _)

\* the members of an object, i at the opening quote of the next key
ParseMembers(s, i, acc) ==
    IF i >= Len(s) \/ s[i + 1] # "\"" THEN NoParse
    ELSE LET key == ParseString(s, i) IN
         IF ~key.ok THEN NoParse
         ELSE LET c == SkipRun(s, key.i, JsonWs) IN
              IF c >= Len(s) \/ s[c + 1] # ":" THEN NoParse
              ELSE LET val == ParseValue(s, SkipRun(s, c + 1, JsonWs)) IN
                   IF ~val.ok THEN NoParse
                   ELSE LET m == SetKey(acc, key.v.s, val.v)
                            n == SkipRun(s, val.i, JsonWs)
                        IN  IF n >= Len(s) THEN NoParse
                            ELSE IF s[n + 1] = "}" THEN Parsed(JObj(m), n + 1)
                            ELSE IF s[n + 1] = ","
                            THEN ParseMembers(s, SkipRun(s, n + 1, JsonWs), m)
                            ELSE NoParse

\* the elements of an array, i at the first character of the next element
ParseElements(s, i, acc) ==
    LET val == ParseValue(s, i) IN
    IF ~val.ok THEN NoParse
    ELSE LET e == Append(acc, val.v)
             n == SkipRun(s, val.i, JsonWs)
         IN  IF n >= Len(s) THEN NoParse
             ELSE IF s[n + 1] = "]" THEN Parsed(JArr(e), n + 1)
             ELSE IF s[n + 1] = ","
             THEN ParseElements(s, SkipRun(s, n + 1, JsonWs), e)
             ELSE NoParse

ParseValue(s, i) ==
    IF i >= Len(s) THEN NoParse
    ELSE LET c == s[i + 1] IN
         IF c = "\"" THEN ParseString(s, i)
         ELSE IF c = "{"
         THEN LET n == SkipRun(s, i + 1, JsonWs) IN
              IF n < Len(s) /\ s[n + 1] = "}"
              THEN Parsed(JObj(<<>>), n + 1)
              ELSE ParseMembers(s, n, <<>>)
         ELSE IF c = "["
         THEN LET n == SkipRun(s, i + 1, JsonWs) IN
              IF n < Len(s) /\ s[n + 1] = "]"
              THEN Parsed(JArr(<<>>), n + 1)
              ELSE ParseElements(s, n, <<>>)
         ELSE IF c = "n" THEN ParseLiteral(s, i, <<"n","u","l","l">>, JNull)
         ELSE IF c = "t" THEN ParseLiteral(s, i, <<"t","r","u","e">>, JBool(TRUE))
         ELSE IF c = "f"
         THEN ParseLiteral(s, i, <<"f","a","l","s","e">>, JBool(FALSE))
         ELSE IF c = "-" \/ c \in Digits THEN ParseNumber(s, i)
         ELSE NoParse

\* json.loads(s): ok is FALSE where json.loads raises JSONDecodeError
json_loads(s) ==
    LET r == ParseValue(s, SkipRun(s, 0, JsonWs)) IN
    IF r.ok /\ SkipRun(s, r.i, JsonWs) = Len(s) THEN r ELSE NoParse

----------------------------------------------------------------------------
(* generate_google_maps_link *)

\* the characters urllib.parse.quote_plus never quotes
AlwaysSafe == Letters \cup Digits \cup {"_", ".", "-", "~"}

\* the two hexadecimal digits of the character's code
PercentCode(c) ==
    CASE c = "\n" -> <<"0","A">> [] c = "\"" -> <<"2","2">>
      [] c = "%" -> <<"2","5">> [] c = "&" -> <<"2","6">>
      [] c = "'" -> <<"2","7">> [] c = "+" -> <<"2","B">>
      [] c = "," -> <<"2","C">> [] c = "/" -> <<"2","F">>
      [] c = ":" -> <<"3","A">> [] c = "=" -> <<"3","D">>
      [] c = "?" -> <<"3","F">> [] c = "[" -> <<"5","B">>
      [] c = "]" -> <<"5","D">> [] c = BQ -> <<"6","0">>
      [] c = "{" -> <<"7","B">> [] c = "}" -> <<"7","D">>

\* urllib.parse.quote_plus(s) with the default safe='': a safe character
\* stays, a space becomes "+", any other character its percent code
QuoteChar(c) ==
    IF c \in AlwaysSafe THEN <<c>>
    ELSE IF c = " " THEN <<"+">>
    ELSE <<"%">> \o PercentCode(c)

quote_plus(s) == Join([i \in 1..Len(s) |-> QuoteChar(s[i])], <<>>)

MapsPrefix ==
    <<"h","t","t","p","s",":","/","/","w","w","w",".","g","o","o","g","l",
      "e",".","c","o","m","/","m","a","p","s","/">>

MapsSearchUrl ==
    <<"h","t","t","p","s",":","/","/","w","w","w",".","g","o","o","g","l",
      "e",".","c","o","m","/","m","a","p","s","/","s","e","a","r","c","h",
      "/","?","a","p","i","=","1","&","q","u","e","r","y","=">>

generate_google_maps_link(place_name) == MapsSearchUrl \o quote_plus(place_name)

----------------------------------------------------------------------------
(* generate_itinerary: the stages after the model has answered.  Python's   *)
(* operators are modelled on every JSON type, so that a value of the wrong *)
(* type raises where Python raises.                                        *)

ServiceFailure ==
    <<"F","a","i","l","e","d"," ","t","o"," ","c","o","m","m","u","n","i",
      "c","a","t","e"," ","w","i","t","h"," ","t","h","e"," ","A","I"," ",
      "s","e","r","v","i","c","e","."," ","P","l","e","a","s","e"," ","t",
      "r","y"," ","a","g","a","i","n"," ","l","a","t","e","r",".">>

InterpretationFailure ==
    <<"W","e"," ","c","o","u","l","d","n","'","t"," ","p","r","o","c","e",
      "s","s"," ","t","h","e"," ","A","I"," ","r","e","s","p","o","n","s",
      "e","."," ","P","l","e","a","s","e"," ","t","r","y"," ","a","g","a",
      "i","n"," ","w","i","t","h"," ","d","i","f","f","e","r","e","n","t",
      " ","p","a","r","a","m","e","t","e","r","s",".">>

UnexpectedFailure ==
    <<"A","n"," ","u","n","e","x","p","e","c","t","e","d"," ","e","r","r",
      "o","r"," ","o","c","c","u","r","r","e","d","."," ","P","l","e","a",
      "s","e"," ","t","r","y"," ","a","g","a","i","n"," ","l","a","t","e",
      "r",".">>

KeyDays == <<"d","a","y","s">>

KeyDay == <<"d","a","y">>

KeyActivities == <<"a","c","t","i","v","i","t","i","e","s">>

KeyTitle == <<"t","i","t","l","e">>

KeyMapLink == <<"m","a","p","_","l","i","n","k">>

\* re.search(r'\{.*\}', raw, re.DOTALL): from the first "{" to the last "}"
BraceSearch(text) ==
    LET a == Find(text, "{")
        ends == {j \in 0..(Len(text) - 1) : text[j + 1] = "}" /\ j > a}
    IN  IF a = -1 \/ ends = {} THEN <<>>
        ELSE SubSeq(text, a + 1, (CHOOSE j \in ends : \A k \in ends : k <= j) + 1)

\* the ends of r'\[\s*\{.*\}\s*\]' matched at 0-based index i
DaysMatchEnds(text, i) ==
    IF i < Len(text) /\ text[i + 1] = "["
    THEN LET b == SkipRun(text, i + 1, Whitespace) IN
         IF b < Len(text) /\ text[b + 1] = "{"
         THEN {e \in 0..(Len(text) - 1) :
                 /\ text[e + 1] = "]"
                 /\ \E k \in (b + 1)..(e - 1) :
                       text[k + 1] = "}" /\ SkipRun(text, k + 1, Whitespace) = e}
         ELSE {}
    ELSE {}

\* re.search(r'(\[\s*\{.*\}\s*\])', raw, re.DOTALL): the leftmost start that
\* matches, with the longest match from it
DaysSearch(text) ==
    LET starts == {i \in 0..(Len(text) - 1) : DaysMatchEnds(text, i) # {}} IN
    IF starts = {} THEN <<>>
    ELSE LET i == CHOOSE x \in starts : \A y \in starts : x <= y
             e == CHOOSE x \in DaysMatchEnds(text, i) :
                      \A y \in DaysMatchEnds(text, i) : y <= x
         IN  SubSeq(text, i + 1, e + 1)

\* the extraction with its two fallbacks on the raw text
LocateJson(text) ==
    LET located == extract_json_from_model_output(text)
        braces == BraceSearch(text)
        second == IF ~StartsWith(Strip(located), <<"{">>) /\ braces # <<>>
                  THEN braces ELSE located
        days == DaysSearch(text)
    IN  IF ~StartsWith(Strip(second), <<"{">>) /\ days # <<>>
        THEN <<"{","\"","d","a","y","s","\"",":"," ">> \o days \o <<"}">>
        ELSE second

\* whether the strict parse fails, so that fix_json is called
NeedsRepair(candidate) == ~json_loads(candidate).ok

\* the parse with its one repair attempt
ParseJson(candidate) ==
    LET strict == json_loads(candidate) IN
    IF strict.ok THEN Returned(strict.v)
    ELSE LET again == json_loads(fix_json(candidate)) IN
         IF again.ok THEN Returned(again.v) ELSE Raised

\* key in x
PyIn(key, x) ==
    IF x.t = "obj" THEN Returned(HasKey(x.m, key))
    ELSE IF x.t = "arr" THEN Returned(\E i \in 1..Len(x.e) : x.e[i] = JStr(key))
    ELSE IF x.t = "str" THEN Returned(Contains(x.s, key))
    ELSE Raised

\* x[key] for a str key
PyGet(x, key) ==
    IF x.t = "obj" /\ HasKey(x.m, key) THEN Returned(GetKey(x.m, key))
    ELSE Raised

\* x[key] = v for a str key
PySet(x, key, v) ==
    IF x.t = "obj" THEN Returned(JObj(SetKey(x.m, key, v))) ELSE Raised

\* bool(x)
Truthy(x) ==
    CASE x.t = "null" -> FALSE
      [] x.t = "bool" -> x.b
      [] x.t = "num" -> x.n # 0
      [] x.t = "str" -> x.s # <<>>
      [] x.t = "arr" -> x.e # <<>>
      [] x.t = "obj" -> x.m # <<>>

\* list(x), the items a for loop visits
PyIter(x) ==
    IF x.t = "arr" THEN Returned(x.e)
    ELSE IF x.t = "str" THEN Returned([i \in 1..Len(x.s) |-> JStr(<<x.s[i]>>)])
    ELSE IF x.t = "obj" THEN Returned([i \in 1..Len(x.m) |-> JStr(x.m[i].k)])
    ELSE Raised

\* activity["map_link"] = generate_google_maps_link(activity["title"])
SetGeneratedLink(activity) ==
    LET title == PyGet(activity, KeyTitle) IN
    IF title.raised \/ title.v.t # "str" THEN Raised
    ELSE PySet(activity, KeyMapLink, JStr(generate_google_maps_link(title.v.s)))

\* a normalisation that accepts whatever link the generator gave
KeepAnyLink(activity) ==
    LET has == PyIn(KeyMapLink, activity) IN
    IF has.raised THEN Raised
    ELSE IF ~has.v THEN SetGeneratedLink(activity)
    ELSE Returned(activity)

\* the body of the loop over a day's activities
NormalizeActivity(activity) ==
    LET has == PyIn(KeyMapLink, activity) IN
    IF has.raised THEN Raised
    ELSE IF ~has.v THEN SetGeneratedLink(activity)
    ELSE LET link == PyGet(activity, KeyMapLink) IN
         IF link.raised THEN Raised
         ELSE IF ~Truthy(link.v) THEN SetGeneratedLink(activity)
         ELSE IF link.v.t # "str" THEN Raised
         ELSE IF ~StartsWith(link.v.s, MapsPrefix) THEN SetGeneratedLink(activity)
         ELSE Returned(activity)

\* a loop body that lets a day without its number through
NormalizeDayUnchecked(day) ==
    LET has == PyIn(KeyActivities, day) IN
    IF has.raised THEN Raised
    ELSE IF has.v THEN Returned(day) ELSE PySet(day, KeyActivities, JArr(<<>>))

\* the body of the loop over the days
NormalizeDay(day) ==
    LET hasActs == PyIn(KeyActivities, day)
        withActs == IF hasActs.raised THEN Raised
                    ELSE IF hasActs.v THEN Returned(day)
                    ELSE PySet(day, KeyActivities, JArr(<<>>))
    IN  IF withActs.raised THEN Raised
        ELSE LET hasDay == PyIn(KeyDay, withActs.v) IN
             IF hasDay.raised \/ ~hasDay.v THEN Raised
             ELSE LET acts == PyGet(withActs.v, KeyActivities)
                      items == IF acts.raised THEN Raised ELSE PyIter(acts.v)
                  IN  IF items.raised THEN Raised
                      ELSE LET done == [i \in 1..Len(items.v) |->
                                           NormalizeActivity(items.v[i])]
                           IN  IF \E i \in 1..Len(done) : done[i].raised THEN Raised
                               ELSE IF acts.v.t = "arr"
                               THEN PySet(withActs.v, KeyActivities,
                                          JArr([i \in 1..Len(done) |-> done[i].v]))
                               ELSE withActs

\* the check for the "days" key with the wrapping of a top-level list
WrapDays(value) ==
    LET has == PyIn(KeyDays, value) IN
    IF has.raised THEN Raised
    ELSE IF has.v THEN Returned(value)
    ELSE IF value.t = "arr" THEN Returned(JObj(<<[k |-> KeyDays, v |-> value]>>))
    ELSE Raised

\* the validation of the parsed value and the loop over its days
NormalizeData(value) ==
    LET wrapped == WrapDays(value)
        days == IF wrapped.raised THEN Raised ELSE PyGet(wrapped.v, KeyDays)
    IN  IF days.raised THEN Raised
        ELSE IF days.v.t # "arr" THEN Raised
        ELSE LET done == [i \in 1..Len(days.v.e) |-> NormalizeDay(days.v.e[i])] IN
             IF \E i \in 1..Len(done) : done[i].raised THEN Raised
             ELSE PySet(wrapped.v, KeyDays, JArr([i \in 1..Len(done) |-> done[i].v]))

----------------------------------------------------------------------------
(* The prompts collection and its routes.  upsert_prompt and delete_prompt *)
(* each make one update_one or delete_one call; seed_prompts makes the     *)
(* same update_one call for each of its four parts.                        *)

MaxPartId == 3

PartIds == 1..MaxPartId

\* update_one({"part_id": id}, {"$set": part}, upsert=True)
UpdateOne(col, part) ==
    IF \E i \in 1..Len(col) : col[i].part_id = part.part_id
    THEN LET f == CHOOSE i \in 1..Len(col) :
                      col[i].part_id = part.part_id
                      /\ \A j \in 1..(i - 1) : col[j].part_id # part.part_id
         IN  [col EXCEPT ![f] = part]
    ELSE Append(col, part)

\* delete_one({"part_id": id})
DeleteOne(col, part_id) ==
    IF \E i \in 1..Len(col) : col[i].part_id = part_id
    THEN LET f == CHOOSE i \in 1..Len(col) :
                      col[i].part_id = part_id
                      /\ \A j \in 1..(i - 1) : col[j].part_id # part_id
         IN  SubSeq(col, 1, f - 1) \o SubSeq(col, f + 1, Len(col))
    ELSE col

\* sort("part_id", 1): the documents in ascending part_id, ties in
\* insertion order
RECURSIVE SortByPartId(_)
SortByPartId(col) ==
    IF col = <<>> THEN <<>>
    ELSE LET sorted == SortByPartId(SubSeq(col, 1, Len(col) - 1))
             doc == col[Len(col)]
             n == Cardinality({i \in 1..Len(sorted) :
                                  sorted[i].part_id <= doc.part_id})
         IN  SubSeq(sorted, 1, n) \o <<doc>> \o SubSeq(sorted, n + 1, Len(sorted))

\* the documents as find() returns them without a sort
PartsUnsorted(col) == col

get_prompt_parts(col) == SortByPartId(col)

BlankLine == <<"\n", "\n">>

\* the loop over the parts and the join of the merged texts
MergeParts(parts, replacements) ==
    LET texts == [i \in 1..Len(parts) |-> RenderPart(parts[i].text, replacements)]
    IN  IF \E i \in 1..Len(texts) : texts[i].raised THEN Raised
        ELSE Returned(Join([i \in 1..Len(texts) |-> Strip(texts[i].v)], BlankLine))

build_master_prompt(col, user) ==
    LET parts == get_prompt_parts(col) IN
    IF parts = <<>> THEN Raised
    ELSE MergeParts(parts, Replacements(user))

----------------------------------------------------------------------------
(* The requests and the stored fragments the server is run with. *)

Paris == <<"P","a","r","i","s">>

PhDays == <<"{","d","a","y","s","}">>

PhFrom == <<"{","f","r","o","m","_","l","o","c","a","t","i","o","n","}">>

PhGroup == <<"{","g","r","o","u","p","}">>

\* a request from Paris for 3 days, and one whose origin is itself the text
\* of a placeholder
UserParis ==
    [from_location |-> Paris, specific_places |-> Some(<<>>),
     categories |-> <<>>, days |-> 3, currency |-> <<"I","N","R">>,
     budget |-> Some(<<>>), intent |-> <<>>, group |-> Some(<<>>),
     stay |-> Some(<<>>), notes |-> Some(<<>>)]

UserOdd ==
    [from_location |-> PhDays, specific_places |-> None,
     categories |-> <<<<"a">>, <<"b">>>>, days |-> 12, currency |-> <<"I","N","R">>,
     budget |-> None, intent |-> <<<<"x">>>>, group |-> Some(PhFrom),
     stay |-> None, notes |-> None]

Users == {UserParis, UserOdd}

\* " Plan {days} days from {from_location}.\n", with blanks to strip
BodyPlan ==
    <<" ","P","l","a","n"," ">> \o PhDays \o <<" ","d","a","y","s"," ","f","r","o","m"," ">>
        \o PhFrom \o <<".", "\n">>

\* "Tips {", whose stray brace makes formatting fail
BodyStray == <<"T","i","p","s"," ","{">>

TemplateBodies == {BodyPlan, BodyStray}

----------------------------------------------------------------------------
(* generate_itinerary.  The handler is an async function that never        *)
(* awaits, so it runs from its first line to its answer without another    *)
(* route running in between: the routes on the collection are taken only   *)
(* while no request is being served.  Its stages are separate steps so     *)
(* that their order can be observed.                                       *)

NoResponse == [status |-> 0, detail |-> <<>>, body |-> JNull]

\* HTTPException(status_code=500, detail=...)
Failure(detail) == [status |-> 500, detail |-> detail, body |-> JNull]

\* return data
Success(body) == [status |-> 200, detail |-> <<>>, body |-> body]

\* the locals of the handler before it runs
NoRequest ==
    /\ pc = "idle"
    /\ payload = <<>>
    /\ master_prompt = <<>>
    /\ raw = <<>>
    /\ json_text = <<>>
    /\ data = JNull
    /\ response = NoResponse
    /\ log = <<>>
    /\ gen_calls = 0

\* no helper is being called on its own
NoHelper == arg = <<>> /\ ret = <<>> /\ step = "idle"

upsert_prompt ==
    /\ pc = "idle"
    /\ \E id \in PartIds, text \in TemplateBodies :
          prompts_col' = UpdateOne(prompts_col, [part_id |-> id, text |-> text])
    /\ UNCHANGED <<pc, payload, master_prompt, raw, json_text, data, response,
                   log, gen_calls, helperVars>>

delete_prompt ==
    /\ pc = "idle"
    /\ \E id \in PartIds : prompts_col' = DeleteOne(prompts_col, id)
    /\ UNCHANGED <<pc, payload, master_prompt, raw, json_text, data, response,
                   log, gen_calls, helperVars>>

\* the answer when build_master_prompt raises
MergeFailure == Failure(UnexpectedFailure)

\* the call of build_master_prompt; its RuntimeError is caught by the outer
\* except Exception
StartRequest ==
    /\ pc = "idle"
    /\ \E user \in Users :
          LET built == build_master_prompt(prompts_col, user) IN
          /\ payload' = user
          /\ log' = <<"merge">>
          /\ IF built.raised
             THEN /\ master_prompt' = <<>>
                  /\ response' = MergeFailure
                  /\ pc' = "responded"
             ELSE /\ master_prompt' = built.v
                  /\ response' = NoResponse
                  /\ pc' = "call_model"
    /\ UNCHANGED <<prompts_col, raw, json_text, data, gen_calls, helperVars>>

\* a handler that calls the model again when the call fails
ModelCallFailsAndRetries ==
    /\ pc = "call_model"
    /\ gen_calls < 3
    /\ gen_calls' = gen_calls + 1
    /\ log' = Append(log, "generate")
    /\ UNCHANGED <<prompts_col, pc, payload, master_prompt, raw, json_text,
                   data, response, helperVars>>

\* generate_content raises
ModelCallFails ==
    /\ pc = "call_model"
    /\ gen_calls' = gen_calls + 1
    /\ log' = Append(log, "generate")
    /\ response' = Failure(ServiceFailure)
    /\ pc' = "responded"
    /\ UNCHANGED <<prompts_col, payload, master_prompt, raw, json_text, data,
                   helperVars>>

\* generate_content returns, and the text of the response is read
ModelReturns(texts) ==
    /\ pc = "call_model"
    /\ \E text \in texts : raw' = text
    /\ gen_calls' = gen_calls + 1
    /\ log' = Append(log, "generate")
    /\ pc' = "locate"
    /\ UNCHANGED <<prompts_col, payload, master_prompt, json_text, data,
                   response, helperVars>>

LocateStage ==
    /\ pc = "locate"
    /\ json_text' = LocateJson(raw)
    /\ log' = Append(log, "locate")
    /\ pc' = "parse"
    /\ UNCHANGED <<prompts_col, payload, master_prompt, raw, data, response,
                   gen_calls, helperVars>>

\* an except branch that answers with the text the model gave
LeakRaw(text) == Failure(text)

\* the except branch of the post-generation try
InterpretationResponse(text) == Failure(InterpretationFailure)

ParseStage ==
    /\ pc = "parse"
    /\ LET parsed == ParseJson(json_text) IN
       /\ log' = log \o (IF NeedsRepair(json_text)
                         THEN <<"parse", "repair">> ELSE <<"parse">>)
       /\ IF parsed.raised
          THEN /\ data' = data
               /\ response' = InterpretationResponse(raw)
               /\ pc' = "responded"
          ELSE /\ data' = parsed.v
               /\ response' = response
               /\ pc' = "normalize"
    /\ UNCHANGED <<prompts_col, payload, master_prompt, raw, json_text,
                   gen_calls, helperVars>>

NormalizeStage ==
    /\ pc = "normalize"
    /\ LET normal == NormalizeData(data) IN
       /\ log' = Append(log, "normalize")
       /\ response' = IF normal.raised
                      THEN InterpretationResponse(raw)
                      ELSE Success(normal.v)
       /\ pc' = "responded"
    /\ UNCHANGED <<prompts_col, payload, master_prompt, raw, json_text, data,
                   gen_calls, helperVars>>

\* the handler has answered; its locals are gone
Finish ==
    /\ pc = "responded"
    /\ pc' = "idle"
    /\ payload' = <<>>
    /\ master_prompt' = <<>>
    /\ raw' = <<>>
    /\ json_text' = <<>>
    /\ data' = JNull
    /\ response' = NoResponse
    /\ log' = <<>>
    /\ gen_calls' = 0
    /\ UNCHANGED <<prompts_col, helperVars>>

----------------------------------------------------------------------------
(* The answers the model is given to return. *)

Quoted(s) == <<"\"">> \o s \o <<"\"">>

\* "key":value
Member(key, value) == Quoted(key) \o <<":">> \o value

ObjectText(members) == <<"{">> \o Join(members, <<",">>) \o <<"}">>

ArrayText(elements) == <<"[">> \o Join(elements, <<",">>) \o <<"]">>

TitleText == Quoted(<<"A"," ","&","b">>)

KeptLink == MapsPrefix \o <<"p","l","a","c","e","/","x">>

\* activities with no, an empty, a kept, a foreign, a null and a numeric
\* map_link, without a title, with a numeric title, and one that is a string
ActivityTexts ==
    { ObjectText(<<Member(KeyTitle, TitleText)>>),
      ObjectText(<<Member(KeyTitle, TitleText), Member(KeyMapLink, Quoted(<<>>))>>),
      ObjectText(<<Member(KeyMapLink, Quoted(KeptLink)), Member(KeyTitle, TitleText)>>),
      ObjectText(<<Member(KeyTitle, TitleText),
                   Member(KeyMapLink, Quoted(<<"h","t","t","p",":","/","/","x">>))>>),
      ObjectText(<<Member(KeyTitle, TitleText),
                   Member(KeyMapLink, <<"n","u","l","l">>)>>),
      ObjectText(<<Member(KeyTitle, TitleText), Member(KeyMapLink, <<"5">>)>>),
      ObjectText(<<Member(KeyMapLink, Quoted(<<>>))>>),
      ObjectText(<<Member(KeyTitle, <<"7">>)>>),
      Quoted(<<"x">>) }

MaxActs == 1

ActivityLists == {ArrayText(a) : a \in SeqsUpTo(ActivityTexts, MaxActs)}

DayOnly == ObjectText(<<Member(KeyDay, <<"2">>)>>)

\* days with and without their number and their activities, a day whose
\* activities are no list, and a day that is a string
DayTexts ==
    {ObjectText(<<Member(KeyDay, <<"1">>), Member(KeyActivities, a)>>) :
        a \in ActivityLists}
    \cup {ObjectText(<<Member(KeyActivities, a)>>) : a \in ActivityLists}
    \cup { DayOnly,
           ObjectText(<<Member(KeyDay, <<"1">>), Member(KeyActivities, <<"5">>)>>),
           Quoted(KeyDay) }

DayLists ==
    {ArrayText(<<d>>) : d \in DayTexts}
    \cup {ArrayText(<<DayOnly, d>>) : d \in DayTexts}

\* {days: <list>,} -- a bare key and a trailing comma
Unquoted(days) == <<"{">> \o KeyDays \o <<":"," ">> \o days \o <<",","}">>

\* the text cut one character short
Truncated(text) == SubSeq(text, 1, Len(text) - 1)

Payloads ==
    {ObjectText(<<Member(KeyDays, d)>>) : d \in DayLists}
    \cup DayLists
    \cup {ObjectText(<<Member(<<"x">>, d)>>) : d \in DayLists}
    \cup {Unquoted(d) : d \in DayLists}
    \cup {Truncated(ObjectText(<<Member(KeyDays, d)>>)) : d \in DayLists}
    \cup { ObjectText(<<Member(KeyDays, <<"5">>)>>),
           ObjectText(<<Member(KeyDays, DayOnly)>>),
           Quoted(KeyDays), <<"5">>, <<"[","]">>, <<"{","}">>, <<>> }

\* bare, fenced after a line of prose, and between prose with braces
Wrappings ==
    { <<<<>>, <<>>>>,
      << <<"H","e","r","e",":"," ">> \o FenceJson \o <<"\n">>, <<"\n">> \o Fence >>,
      << <<"o","k"," ">>, <<" ","{","t","h","a","n","k","s","}">> >> }

AllAnswers == {w[1] \o p \o w[2] : w \in Wrappings, p \in Payloads}

GoodDay ==
    ObjectText(<<Member(KeyDay, <<"1">>),
                 Member(KeyActivities,
                        ArrayText(<<ObjectText(<<Member(KeyTitle, TitleText)>>)>>))>>)

\* one answer of each kind: a well-formed itinerary, bare and fenced; one
\* that needs the repair; one without days; one that is no JSON; none
SampleAnswers ==
    { ObjectText(<<Member(KeyDays, ArrayText(<<GoodDay>>))>>),
      FenceJson \o <<"\n">> \o ObjectText(<<Member(KeyDays, ArrayText(<<GoodDay>>))>>)
          \o <<"\n">> \o Fence,
      Unquoted(ArrayText(<<GoodDay>>)),
      ObjectText(<<Member(<<"x">>, <<"5">>)>>),
      <<"s","o","r","r","y">>,
      <<>> }

ModelAnswers == ModelReturns(SampleAnswers)

ModelAnswersAny == ModelReturns(AllAnswers)

----------------------------------------------------------------------------
(* The server: the routes on the collection and the handler. *)

Init ==
    /\ prompts_col = <<>>
    /\ NoRequest
    /\ NoHelper

Next ==
    \/ upsert_prompt
    \/ delete_prompt
    \/ StartRequest
    \/ ModelCallFails
    \/ ModelAnswers
    \/ LocateStage
    \/ ParseStage
    \/ NormalizeStage
    \/ Finish

Spec == Init /\ [][Next]_vars

(* The handler alone, over one stored fragment, with every modelled answer *)
(* of the model.                                                           *)

InitPipeline ==
    /\ prompts_col = <<[part_id |-> 1, text |-> BodyPlan]>>
    /\ NoRequest
    /\ NoHelper

NextPipeline ==
    \/ StartRequest
    \/ ModelCallFails
    \/ ModelAnswersAny
    \/ LocateStage
    \/ ParseStage
    \/ NormalizeStage
    \/ Finish

SpecPipeline == InitPipeline /\ [][NextPipeline]_vars

----------------------------------------------------------------------------
(* Properties of the server. *)

\* the day entries of a parsed value or of a returned result
DaysIn(v) == IF v.t = "arr" THEN v.e ELSE GetKey(v.m, KeyDays).e

\* the activities of a day entry whose activities are a list
ActivitiesIn(day) ==
    IF day.t = "obj" /\ HasKey(day.m, KeyActivities)
          /\ GetKey(day.m, KeyActivities).t = "arr"
    THEN GetKey(day.m, KeyActivities).e
    ELSE <<>>

Returns == pc = "responded" /\ response.status = 200

Fails == pc = "responded" /\ response.status = 500

\* the title of the modelled activities, "A &b", as a query string
ExpectedQuery(title) ==
    CASE title = <<"A"," ","&","b">> -> <<"A","+","%","2","6","b">>

\* the generator gave this activity a link with the maps prefix
GivenMapsLink(activity) ==
    /\ HasKey(activity.m, KeyMapLink)
    /\ GetKey(activity.m, KeyMapLink).t = "str"
    /\ StartsWith(GetKey(activity.m, KeyMapLink).s, MapsPrefix)

\* C2: in a returned result every activity has a non-empty map_link that
\* starts with the maps prefix: the generator's own when it had that prefix,
\* else the search URL followed by the encoded title.
C2_EveryActivityHasMapsLink ==
    Returns =>
        \A d \in 1..Len(DaysIn(response.body)) :
            \A a \in 1..Len(ActivitiesIn(DaysIn(response.body)[d])) :
                LET old == ActivitiesIn(DaysIn(data)[d])[a]
                    new == ActivitiesIn(DaysIn(response.body)[d])[a]
                    link == GetKey(new.m, KeyMapLink)
                IN  /\ HasKey(new.m, KeyMapLink)
                    /\ link.t = "str"
                    /\ link.s # <<>>
                    /\ StartsWith(link.s, MapsPrefix)
                    /\ IF GivenMapsLink(old)
                       THEN link = GetKey(old.m, KeyMapLink)
                       ELSE link.s = MapsSearchUrl
                                \o ExpectedQuery(GetKey(new.m, KeyTitle).s)

\* a returned result with an activity whose foreign link was replaced
C2_Witness ==
    /\ Returns
    /\ \E d \in 1..Len(DaysIn(response.body)) :
          \E a \in 1..Len(ActivitiesIn(DaysIn(response.body)[d])) :
              /\ HasKey(ActivitiesIn(DaysIn(data)[d])[a].m, KeyMapLink)
              /\ GetKey(ActivitiesIn(DaysIn(data)[d])[a].m, KeyMapLink)
                    = JStr(<<"h","t","t","p",":","/","/","x">>)
              /\ GetKey(ActivitiesIn(DaysIn(response.body)[d])[a].m, KeyMapLink)
                    = JStr(MapsSearchUrl \o <<"A","+","%","2","6","b">>)

\* the ordinals of the stored fragments, ascending
RECURSIVE Ascending(_)
Ascending(ids) ==
    IF ids = {} THEN <<>>
    ELSE LET least == CHOOSE x \in ids : \A y \in ids : x <= y IN
         <<least>> \o Ascending(ids \ {least})

StoredIds == {prompts_col[i].part_id : i \in 1..Len(prompts_col)}

\* the body stored under an ordinal
BodyOf(id) ==
    prompts_col[CHOOSE i \in 1..Len(prompts_col) : prompts_col[i].part_id = id].text

\* the stripped rendered bodies of the given ordinals, one blank line
\* between consecutive ones
RECURSIVE Composite(_, _)
Composite(ids, user) ==
    IF ids = <<>> THEN <<>>
    ELSE LET body == Strip(RenderPart(BodyOf(Head(ids)), Replacements(user)).v) IN
         IF Len(ids) = 1 THEN body
         ELSE body \o <<"\n", "\n">> \o Composite(Tail(ids), user)

\* C4: for stored fragments with distinct ordinals, whatever the order they
\* were inserted in, the merged prompt is their stripped rendered bodies in
\* ascending ordinal order, joined by one blank line.
C4_MergedInOrdinalOrder ==
    (pc = "call_model" /\ Cardinality(StoredIds) = Len(prompts_col)) =>
        master_prompt = Composite(Ascending(StoredIds), payload)

\* fragments inserted in the order 3, 1, 2 and merged
C4_Witness ==
    /\ pc = "call_model"
    /\ Len(prompts_col) = 3
    /\ <<prompts_col[1].part_id, prompts_col[2].part_id, prompts_col[3].part_id>>
          = <<3, 1, 2>>
    /\ prompts_col[1].text # prompts_col[2].text

\* the answer is a JSON array whose entries the normalizer accepts as days
IsArrayOfDays(text) ==
    /\ json_loads(text).ok
    /\ json_loads(text).v.t = "arr"
    /\ json_loads(text).v.e # <<>>
    /\ \A i \in 1..Len(json_loads(text).v.e) : json_loads(text).v.e[i].t = "obj"
    /\ ~NormalizeData(json_loads(text).v).raised

\* C5: an answer that is a top-level JSON array of day objects is wrapped
\* as {days: <array>} and returned as a result whose days are the entries
\* of the array, in order.
C5_TopLevelArrayIsWrapped ==
    (pc = "responded" /\ gen_calls = 1 /\ response # Failure(ServiceFailure)
        /\ IsArrayOfDays(raw)) =>
        response = Success(NormalizeData(json_loads(raw).v).v)

\* a day entry that is no object or has no "day" field
LacksDay(entry) == entry.t # "obj" \/ ~HasKey(entry.m, KeyDay)

\* the parsed value lacks the required shape
LacksShape(v) ==
    \/ v.t \notin {"obj", "arr"}
    \/ v.t = "obj" /\ ~HasKey(v.m, KeyDays)
    \/ v.t = "obj" /\ HasKey(v.m, KeyDays) /\ GetKey(v.m, KeyDays).t # "arr"
    \/ /\ v.t = "arr" \/ (HasKey(v.m, KeyDays) /\ GetKey(v.m, KeyDays).t = "arr")
       /\ \E i \in 1..Len(DaysIn(v)) : LacksDay(DaysIn(v)[i])

\* every entry has its "day" and none has "activities"
OnlyActivitiesMissing(v) ==
    /\ ~LacksShape(v)
    /\ v.t = "obj"
    /\ \A i \in 1..Len(DaysIn(v)) : ~HasKey(DaysIn(v)[i].m, KeyActivities)

\* C6: a parsed object without "days", with "days" that is no list, or with
\* a day entry without "day" ends the request in a failure, never in a
\* result; a day entry that lacks only "activities" is no failure and gets
\* an empty list.
C6_ShapeIsRequired ==
    ("normalize" \in {log[i] : i \in 1..Len(log)} /\ pc = "responded") =>
        /\ LacksShape(data) => Fails
        /\ OnlyActivitiesMissing(data) =>
              /\ Returns
              /\ \A i \in 1..Len(DaysIn(response.body)) :
                    GetKey(DaysIn(response.body)[i].m, KeyActivities) = JArr(<<>>)

\* a returned result one of whose days had no activities
C6_Witness ==
    /\ Returns
    /\ OnlyActivitiesMissing(data)
    /\ DaysIn(data) # <<>>

StageOrders ==
    { <<"merge", "generate", "locate", "parse", "normalize">>,
      <<"merge", "generate", "locate", "parse", "repair", "normalize">> }

IsPrefixOf(p, s) == Len(p) <= Len(s) /\ SubSeq(s, 1, Len(p)) = p

\* C9: the stages run in a fixed order and the model is called at most
\* once: the merge comes first; with no fragments the request fails and the
\* model is never called; a failed call ends the request with the service
\* failure, with no second call and no later stage; the later stages run
\* only after the model has answered.
C9_StagesInOrder ==
    /\ gen_calls <= 1
    /\ \E order \in StageOrders : IsPrefixOf(log, order)
    /\ gen_calls = Cardinality({i \in 1..Len(log) : log[i] = "generate"})
    /\ (pc # "idle" /\ prompts_col = <<>>) =>
          Fails /\ gen_calls = 0 /\ log = <<"merge">>
    /\ response.detail = ServiceFailure =>
          Fails /\ gen_calls = 1 /\ log = <<"merge", "generate">>
    /\ Len(log) > 2 => gen_calls = 1 /\ response.detail # ServiceFailure

\* a request ended by a failed call of the model
C9_Witness ==
    /\ Fails
    /\ response.detail = ServiceFailure
    /\ log = <<"merge", "generate">>

----------------------------------------------------------------------------
(* The locator on its own: every text over a small alphabet, bare or       *)
(* wrapped in prose and code fences, and the two documented examples.      *)

MaxLocLen == 4

LocAlphabet == {"{", "[", "}", "]", "a"}

NestedExample ==
    <<"{","\"","a","\"",":","[","1",",","{","\"","b","\"",":","2","}","]","}">>

TruncatedExample == <<"{","\"","a","\"",":"," ","[","1",","," ","2">>

LocPrefixes ==
    { <<>>,
      <<"a"," ">>,
      FenceJson \o <<"\n">>,
      <<"h","e","r","e"," ","i","s"," ","j","s","o","n"," ">> \o FenceJson \o <<"\n">> }

LocSuffixes ==
    { <<>>,
      <<" ","a">>,
      <<"\n">> \o Fence,
      <<"\n">> \o Fence \o <<"\n","t","h","a","n","k","s">> }

\* a payload followed by prose that holds braces of its own
TrailingBraceExample == <<"{","{","}","}"," ","{","a","}">>

LocCores ==
    SeqsUpTo(LocAlphabet, MaxLocLen)
        \cup {NestedExample, TruncatedExample, TrailingBraceExample}

LocatorInputs == {p \o c \o s : p \in LocPrefixes, c \in LocCores, s \in LocSuffixes}

InitLocator ==
    /\ prompts_col = <<>>
    /\ NoRequest
    /\ arg \in LocatorInputs
    /\ ret = <<>>
    /\ step = "ready"

ApplyLocator ==
    /\ step = "ready"
    /\ ret' = extract_json_from_model_output(arg)
    /\ step' = "done"
    /\ UNCHANGED <<arg, serverVars>>

NextLocator == ApplyLocator

SpecLocator == InitLocator /\ [][NextLocator]_vars

HasOpener(s) == \E i \in 1..Len(s) : s[i] \in {"{", "["}

\* 0-based index of the first "{" or "[" of s
EarliestOpener(s) ==
    (CHOOSE i \in 1..Len(s) :
        s[i] \in {"{", "["} /\ \A j \in 1..(i - 1) : s[j] \notin {"{", "["}) - 1

DocumentedFenced ==
    <<"h","e","r","e"," ","i","s"," ","j","s","o","n"," ">> \o FenceJson
        \o <<"\n">> \o NestedExample \o <<"\n">> \o Fence
        \o <<"\n","t","h","a","n","k","s">>

\* C1: when the text holds a "{" or a "[", the located substring begins at
\* the earliest index of either in the trimmed, fence-stripped text; the
\* documented nested example is returned whole, and the documented truncated
\* example is returned from its "{".
C1_StartsAtEarliestOpener ==
    step = "done" =>
        /\ HasOpener(CleanText(arg)) =>
              /\ ret # <<>>
              /\ StartsWith(From(CleanText(arg), EarliestOpener(CleanText(arg))), ret)
        /\ arg = DocumentedFenced => ret = NestedExample
        /\ arg = TruncatedExample => ret = TruncatedExample

\* "{" is closed by "}" and "[" by "]"
Closes(o, c) == (o = "{" /\ c = "}") \/ (o = "[" /\ c = "]")

\* the delimiters of s from 1-based position i on, read against the open
\* delimiters in stack, never close anything but the innermost open one
RECURSIVE NestsFrom(_, _, _)
NestsFrom(s, i, stack) ==
    IF i > Len(s) THEN TRUE
    ELSE IF s[i] \in {"{", "["} THEN NestsFrom(s, i + 1, Append(stack, s[i]))
    ELSE IF s[i] \in {"}", "]"}
    THEN /\ stack # <<>>
         /\ Closes(stack[Len(stack)], s[i])
         /\ NestsFrom(s, i + 1, SubSeq(stack, 1, Len(stack) - 1))
    ELSE NestsFrom(s, i + 1, stack)

\* open minus closed delimiters among the 0-based positions a..j of s
Depth(s, a, j) ==
    Cardinality({k \in a..j : s[k + 1] \in {"{", "["}})
        - Cardinality({k \in a..j : s[k + 1] \in {"}", "]"}})

\* whether the delimiter opened at a is closed at j
ClosedAt(s, a, j) ==
    /\ Depth(s, a, j) = 0
    /\ \A k \in a..(j - 1) : Depth(s, a, k) > 0

\* C10: when the delimiters from the start index on are well nested, the
\* result ends exactly where the delimiter found at the start index is
\* closed; when it is never closed the result runs to the end of the text.
C10_EndsAtMatchingCloser ==
    LET cleaned == CleanText(arg)
        a == StartIndex(cleaned)
    IN  (step = "done" /\ a # -1 /\ NestsFrom(cleaned, a + 1, <<>>)) =>
            IF \E j \in a..(Len(cleaned) - 1) : ClosedAt(cleaned, a, j)
            THEN \E j \in a..(Len(cleaned) - 1) :
                    /\ ClosedAt(cleaned, a, j)
                    /\ ret = SubSeq(cleaned, a + 1, j + 1)
            ELSE ret = From(cleaned, a)

\* a located value whose closing delimiter is neither the first nor the last
\* closing delimiter of the text
C10_Witness ==
    LET cleaned == CleanText(arg)
        a == StartIndex(cleaned)
    IN  /\ step = "done" /\ a # -1 /\ NestsFrom(cleaned, a + 1, <<>>)
        /\ \E j \in a..(Len(cleaned) - 1) :
              /\ ClosedAt(cleaned, a, j)
              /\ ret = SubSeq(cleaned, a + 1, j + 1)
              /\ \E k \in a..(j - 1) : cleaned[k + 1] \in {"}", "]"}
              /\ \E k \in (j + 1)..(Len(cleaned) - 1) : cleaned[k + 1] \in {"}", "]"}

----------------------------------------------------------------------------
(* The repair on its own: JSON documents whose one string value ranges     *)
(* over every short text of commas, colons, braces and letters, and the    *)
(* documented malformed example.                                           *)

MaxRepLen == 3

RepAlphabet == {"a", ",", ":", "{", "}", "]", " "}

\* {days: [{day: 1,}]}
BareKeyExample ==
    <<"{","d","a","y","s",":"," ","[","{","d","a","y",":"," ","1",",","}","]","}">>

\* {"days": [{"day": 1}]}
BareKeyRepaired ==
    <<"{","\"","d","a","y","s","\"",":"," ","[","{","\"","d","a","y","\"",":",
      " ","1","}","]","}">>

RepairInputs ==
    {<<"{","\"","k","\"",":","\"">> \o c \o <<"\"","}">> :
        c \in SeqsUpTo(RepAlphabet, MaxRepLen)}
    \cup {<<"[","1",",","\"">> \o c \o <<"\"","]">> :
        c \in SeqsUpTo(RepAlphabet, MaxRepLen)}
    \cup {BareKeyExample, BareKeyRepaired}

InitRepair ==
    /\ prompts_col = <<>>
    /\ NoRequest
    /\ arg \in RepairInputs
    /\ ret = <<>>
    /\ step = "ready"

ApplyRepair ==
    /\ step = "ready"
    /\ ret' = fix_json(arg)
    /\ step' = "done"
    /\ UNCHANGED <<arg, serverVars>>

NextRepair == ApplyRepair

SpecRepair == InitRepair /\ [][NextRepair]_vars

\* C3: the repair returns every text that json.loads already accepts
\* unchanged, character for character.
C3_ValidJsonUnchanged ==
    (step = "done" /\ json_loads(arg).ok) => ret = arg

----------------------------------------------------------------------------
(* The rendering of one fragment on its own: every short template built    *)
(* from stray braces, known and unknown placeholders and plain text,       *)
(* against two substitution sets.                                          *)

MaxTokens == 3

PhUnknown == <<"{","z","z","}">>

TemplateTokens ==
    {<<"{">>, <<"}">>, PhDays, PhFrom, PhGroup, PhUnknown, <<"x">>, <<" ">>}

Flatten(tokens) == Join(tokens, <<>>)

InitRender ==
    /\ prompts_col = <<>>
    /\ NoRequest
    /\ arg \in [template : SeqsUpTo(TemplateTokens, MaxTokens), user : Users]
    /\ ret = <<>>
    /\ step = "ready"

ApplyRender ==
    /\ step = "ready"
    /\ ret' = RenderPart(Flatten(arg.template), Replacements(arg.user))
    /\ step' = "done"
    /\ UNCHANGED <<arg, serverVars>>

NextRender == ApplyRender

SpecRender == InitRender /\ [][NextRender]_vars

\* what the literal replacement makes of one token: each known "{key}" in
\* mapping order turns the token into its value, anything else is kept
RECURSIVE TokenAfter(_, _, _)
TokenAfter(token, replacements, n) ==
    IF n > Len(replacements) THEN token
    ELSE TokenAfter(
             IF token = <<"{">> \o replacements[n].k \o <<"}">>
             THEN replacements[n].v ELSE token,
             replacements, n + 1)

\* C7: rendering never raises and yields a string; when structured
\* formatting fails, every literal "{key}" of a known key is replaced by its
\* value, in mapping order, and stray braces and unknown placeholders stay
\* verbatim.
C7_RenderNeverRaises ==
    step = "done" =>
        /\ ~ret.raised
        /\ Format(Flatten(arg.template), Replacements(arg.user)).raised =>
              ret.v = Flatten([i \in 1..Len(arg.template) |->
                          TokenAfter(arg.template[i], Replacements(arg.user), 1)])

\* a template with a stray brace, a known and an unknown placeholder
C7_Witness ==
    /\ step = "done"
    /\ arg.user = UserParis
    /\ arg.template = <<<<"{">>, PhDays, PhUnknown>>
    /\ ret = Returned(<<"{", "3", "{", "z", "z", "}">>)


====
